---- MODULE Spec2Model ----
(***************************************************************************)
(* A model of the security layer of the blog application                   *)
(* (src/apps/blog/security.py) and of the security configurations the      *)
(* models declare (src/apps/blog/models.py).                               *)
(*                                                                         *)
(* One call of one of the security functions is in progress at a time.     *)
(* `call` holds the arguments of the call, `pc` its position, `result`     *)
(* what it returned or raised, `log` the records written to the module's   *)
(* logger and `trace` the stages the call went through, in order.  `op`    *)
(* is the wrapped operation of the call: the keyword arguments object as   *)
(* it is now, whether the operation was invoked, and what it did.          *)
(* `graphql_security` is the _graphql_security attribute of each class.    *)
(* `security_registry` is the module's SECURITY_REGISTRY.  `threads` are    *)
(* the threads that call concurrently, `completions` the order in which    *)
(* their operations ended, `writers` the thread that wrote each record of  *)
(* `log`, and `blog_settings` the stored rows of BlogSettings.             *)
(***************************************************************************)
EXTENDS Integers, Sequences, FiniteSets, TLC

VARIABLES pc, call, result, log, trace, op, graphql_security,
          security_registry, threads, completions, writers, blog_settings

\* the state no single call of the security functions writes
shared == <<security_registry, threads, completions, writers, blog_settings>>

vars == <<pc, call, result, log, trace, op, graphql_security, shared>>

(***************************************************************************)
(* Bounds of the model.                                                    *)
(***************************************************************************)
\* the largest number of roles in a list of roles
MaxRoles == 2
\* the number of saved users (primary keys 1..MaxUsers)
MaxUsers == 2

(***************************************************************************)
(* Enumerations.  A member of a Python Enum is equal to no string, not     *)
(* even to its own value, so a member and its value are different tokens.  *)
(***************************************************************************)
PUBLIC == "FieldAccessLevel.PUBLIC"
AUTHENTICATED == "FieldAccessLevel.AUTHENTICATED"
OWNER_OR_ADMIN == "FieldAccessLevel.OWNER_OR_ADMIN"
ADMIN_ONLY == "FieldAccessLevel.ADMIN_ONLY"
READ_ONLY == "FieldAccessLevel.READ_ONLY"

FieldAccessLevel == {PUBLIC, AUTHENTICATED, OWNER_OR_ADMIN, ADMIN_ONLY, READ_ONLY}

\* the values of the members of BlogRoles: the role names users carry
BlogRoleValues == {"ADMIN", "EDITOR", "AUTHOR", "READER", "MODERATOR"}

\* the members of BlogRoles themselves, as the model configurations list them
BlogRoles == {"BlogRoles.ADMIN", "BlogRoles.EDITOR", "BlogRoles.AUTHOR",
              "BlogRoles.READER", "BlogRoles.MODERATOR"}

(***************************************************************************)
(* Users.  AnonymousUser is the one anonymous user: it is neither staff    *)
(* nor superuser and has no `roles` attribute.  A saved user has a primary *)
(* key, the two flags, and the roles the application attached to it.       *)
(***************************************************************************)
RoleLists(universe) == {rs \in SUBSET universe : Cardinality(rs) <= MaxRoles}

AnonymousUser ==
    [anonymous |-> TRUE, pk |-> 0, is_staff |-> FALSE, is_superuser |-> FALSE,
     roles |-> {}]

Users ==
    {AnonymousUser} \cup
    [anonymous : {FALSE}, pk : 1..MaxUsers, is_staff : BOOLEAN,
     is_superuser : BOOLEAN, roles : RoleLists(BlogRoleValues)]

\* getattr(user, 'roles', [])
user_roles(user) == user.roles

(***************************************************************************)
(* The security configurations, as the models declare them.                *)
(***************************************************************************)
CategorySecurity ==
    [required_roles |-> {"BlogRoles.EDITOR", "BlogRoles.ADMIN"},
     audit_operations |-> {"create", "update", "delete"},
     field_permissions |-> [is_active |-> ADMIN_ONLY]]

TagSecurity ==
    [required_roles |-> {"BlogRoles.EDITOR", "BlogRoles.ADMIN"},
     audit_operations |-> {"create", "update", "delete"},
     field_permissions |-> [is_active |-> ADMIN_ONLY]]

PostSecurity ==
    [required_roles |-> {"BlogRoles.AUTHOR", "BlogRoles.EDITOR", "BlogRoles.ADMIN"},
     audit_operations |-> {"create", "update", "delete"},
     field_permissions |-> [status |-> OWNER_OR_ADMIN,
                            is_featured |-> ADMIN_ONLY,
                            view_count |-> READ_ONLY]]

CommentSecurity ==
    [required_roles |-> {"BlogRoles.READER", "BlogRoles.AUTHOR",
                         "BlogRoles.EDITOR", "BlogRoles.ADMIN"},
     audit_operations |-> {"create", "update", "delete"},
     field_permissions |-> [is_approved |-> ADMIN_ONLY,
                            is_flagged |-> ADMIN_ONLY]]

SubscriberSecurity ==
    [required_roles |-> {"BlogRoles.ADMIN", "BlogRoles.EDITOR"},
     sensitive_fields |-> {"email"},
     audit_operations |-> {"create", "update", "delete"},
     field_permissions |-> [email |-> ADMIN_ONLY,
                            preferences |-> OWNER_OR_ADMIN]]

BlogSettingsSecurity ==
    [required_roles |-> {"BlogRoles.ADMIN"},
     audit_operations |-> {"create", "update", "delete"},
     field_permissions |-> [maintenance_mode |-> ADMIN_ONLY,
                            api_keys |-> ADMIN_ONLY]]

\* The levels a configuration handed to secure_model can name for a field:
\* the five members, or anything else (here the bare value of a member, and
\* None), which no branch of check_field_access recognises.
UnknownLevels == {"admin_only", "None"}

LevelValues == FieldAccessLevel \cup UnknownLevels

\* A model class decorated with secure_model: its name, the configuration
\* stored in _graphql_security, and whether it has an `author` relation.
ModelClass(name, security, has_author_field) ==
    [name |-> name, _graphql_security |-> security,
     has_author_field |-> has_author_field]

DeclaredModels ==
    {ModelClass("Category", CategorySecurity, FALSE),
     ModelClass("Tag", TagSecurity, FALSE),
     ModelClass("Post", PostSecurity, TRUE),
     ModelClass("Comment", CommentSecurity, TRUE),
     ModelClass("Subscriber", SubscriberSecurity, FALSE),
     ModelClass("BlogSettings", BlogSettingsSecurity, FALSE)}

\* Any other class secure_model decorates: one configured field `flag`
\* at any level, with or without an author relation.
OtherModels ==
    {ModelClass("Other",
                [required_roles |-> {}, audit_operations |-> {},
                 field_permissions |-> [flag |-> lv]], ha) :
        lv \in LevelValues, ha \in BOOLEAN}

Models == DeclaredModels \cup OtherModels

\* the field names a check is asked about: configured ones and others
FieldNames == {"is_active", "status", "is_featured", "view_count",
               "preferences", "flag", "title"}

Operations == {"read", "write"}

(***************************************************************************)
(* secure_model: the two methods it adds to a model class.                 *)
(***************************************************************************)
\* field_permissions.get(field_name, FieldAccessLevel.AUTHENTICATED)
access_level_default_authenticated(cls, field_name) ==
    LET field_permissions == cls._graphql_security.field_permissions
    IN  IF field_name \in DOMAIN field_permissions
        THEN field_permissions[field_name]
        ELSE AUTHENTICATED

\* field_permissions.get(field_name, FieldAccessLevel.PUBLIC)
access_level(cls, field_name) ==
    LET field_permissions == cls._graphql_security.field_permissions
    IN  IF field_name \in DOMAIN field_permissions
        THEN field_permissions[field_name]
        ELSE PUBLIC

\* hasattr(self, 'author') and self.author == user, for an instance of cls
\* whose author is the user with primary key `author` (0: not set).
author_is(cls, author, user) ==
    /\ cls.has_author_field
    /\ author # 0
    /\ ~user.anonymous
    /\ author = user.pk

\* check_field_access with a READ_ONLY branch that lets staff write
check_field_access_staff_writes(cls, author, field_name, user, operation) ==
    LET lv == access_level(cls, field_name)
    IN  CASE lv = PUBLIC -> TRUE
          [] lv = AUTHENTICATED -> ~user.anonymous
          [] lv = OWNER_OR_ADMIN -> author_is(cls, author, user) \/ user.is_staff
          [] lv = ADMIN_ONLY -> user.is_staff \/ user.is_superuser
          [] lv = READ_ONLY -> operation = "read" \/ user.is_staff
          [] OTHER -> FALSE

\* check_field_access with the ADMIN_ONLY test on is_staff alone
check_field_access_staff_only(cls, author, field_name, user, operation) ==
    LET lv == access_level(cls, field_name)
    IN  CASE lv = PUBLIC -> TRUE
          [] lv = AUTHENTICATED -> ~user.anonymous
          [] lv = OWNER_OR_ADMIN -> author_is(cls, author, user) \/ user.is_staff
          [] lv = ADMIN_ONLY -> user.is_staff
          [] lv = READ_ONLY -> operation = "read"
          [] OTHER -> FALSE

\* check_field_access that ends with `return True`
check_field_access_fail_open(cls, author, field_name, user, operation) ==
    LET lv == access_level(cls, field_name)
    IN  CASE lv = PUBLIC -> TRUE
          [] lv = AUTHENTICATED -> ~user.anonymous
          [] lv = OWNER_OR_ADMIN -> author_is(cls, author, user) \/ user.is_staff
          [] lv = ADMIN_ONLY -> user.is_staff \/ user.is_superuser
          [] lv = READ_ONLY -> operation = "read"
          [] OTHER -> TRUE

check_field_access(cls, author, field_name, user, operation) ==
    LET lv == access_level(cls, field_name)
    IN  CASE lv = PUBLIC -> TRUE
          [] lv = AUTHENTICATED -> ~user.anonymous
          [] lv = OWNER_OR_ADMIN -> author_is(cls, author, user) \/ user.is_staff
          [] lv = ADMIN_ONLY -> user.is_staff \/ user.is_superuser
          [] lv = READ_ONLY -> operation = "read"
          [] OTHER -> FALSE

\* check_role_access without the admin branch
check_role_access_no_admin(user, required_roles) ==
    IF required_roles = {} THEN TRUE
    ELSE IF user.anonymous THEN FALSE
    ELSE \E role \in user_roles(user) : role \in required_roles

check_role_access(user, required_roles) ==
    IF required_roles = {} THEN TRUE
    ELSE IF user.anonymous THEN FALSE
    ELSE IF user.is_staff \/ user.is_superuser THEN TRUE
    ELSE \E role \in user_roles(user) : role \in required_roles


(***************************************************************************)
(* Python values of a request payload.  A string is the sequence of its    *)
(* characters; a dict is the sequence of its (key, value) items in         *)
(* insertion order; a list is the sequence of its items.                   *)
(***************************************************************************)
PStr(chars) == [t |-> "str", v |-> chars]
PDict(items) == [t |-> "dict", v |-> items]
PList(items) == [t |-> "list", v |-> items]
PInt == [t |-> "int", v |-> <<>>]

UpperToLower ==
    [A |-> "a", B |-> "b", C |-> "c", D |-> "d", E |-> "e", F |-> "f", G |-> "g",
     H |-> "h", I |-> "i", J |-> "j", K |-> "k", L |-> "l", M |-> "m", N |-> "n",
     O |-> "o", P |-> "p", Q |-> "q", R |-> "r", S |-> "s", T |-> "t", U |-> "u",
     V |-> "v", W |-> "w", X |-> "x", Y |-> "y", Z |-> "z"]

\* str.lower()
lower(chars) ==
    [i \in 1..Len(chars) |->
        IF chars[i] \in DOMAIN UpperToLower THEN UpperToLower[chars[i]] ELSE chars[i]]

\* pattern in value, for strings
contains(chars, pattern) ==
    \E i \in 1..(Len(chars) - Len(pattern) + 1) :
        SubSeq(chars, i, i + Len(pattern) - 1) = pattern

\* the denylist of _validate_input_data, in its order: each pattern as
\* written (the name the error carries) and its characters
dangerous_patterns ==
    << [name |-> "<script", chars |-> <<"<", "s", "c", "r", "i", "p", "t">>],
       [name |-> "javascript:",
        chars |-> <<"j", "a", "v", "a", "s", "c", "r", "i", "p", "t", ":">>],
       [name |-> "onload=", chars |-> <<"o", "n", "l", "o", "a", "d", "=">>],
       [name |-> "onerror=", chars |-> <<"o", "n", "e", "r", "r", "o", "r", "=">>],
       [name |-> "DROP TABLE",
        chars |-> <<"D", "R", "O", "P", " ", "T", "A", "B", "L", "E">>],
       [name |-> "DELETE FROM",
        chars |-> <<"D", "E", "L", "E", "T", "E", " ", "F", "R", "O", "M">>] >>

\* the loop over dangerous_patterns that keeps the last pattern found
RECURSIVE first_pattern_last_found(_, _)
first_pattern_last_found(value_lower, i) ==
    IF i > Len(dangerous_patterns) THEN ""
    ELSE LET later == first_pattern_last_found(value_lower, i + 1)
         IN  IF later # "" THEN later
             ELSE IF contains(value_lower, lower(dangerous_patterns[i].chars))
                  THEN dangerous_patterns[i].name
                  ELSE ""

\* the loop over dangerous_patterns that compares the string as written
RECURSIVE first_pattern_case_sensitive(_, _)
first_pattern_case_sensitive(value_lower, i) ==
    IF i > Len(dangerous_patterns) THEN ""
    ELSE IF contains(value_lower, dangerous_patterns[i].chars)
         THEN dangerous_patterns[i].name
         ELSE first_pattern_case_sensitive(value_lower, i + 1)

\* the loop over dangerous_patterns on one string: the name of the first
\* pattern found from position i on, "" when there is none
RECURSIVE first_pattern(_, _)
first_pattern(value_lower, i) ==
    IF i > Len(dangerous_patterns) THEN ""
    ELSE IF contains(value_lower, lower(dangerous_patterns[i].chars))
         THEN dangerous_patterns[i].name
         ELSE first_pattern(value_lower, i + 1)

\* check_value: the pattern named by the ValueError it raises, "" when it
\* returns.  check_values is its loop over the items of a dict or a list.
RECURSIVE check_value(_)
RECURSIVE check_values(_, _)
check_value(value) ==
    IF value.t = "str" THEN first_pattern(lower(value.v), 1)
    ELSE IF value.t = "dict"
         THEN check_values([i \in 1..Len(value.v) |-> value.v[i][2]], 1)
    ELSE IF value.t = "list" THEN check_values(value.v, 1)
    ELSE ""

check_values(items, i) ==
    IF i > Len(items) THEN ""
    ELSE LET raised == check_value(items[i])
         IN  IF raised # "" THEN raised ELSE check_values(items, i + 1)

\* _validate_input_data that looks at the top-level values only
_validate_input_data_shallow(data) ==
    LET strings == SelectSeq([i \in 1..Len(data.v) |-> data.v[i][2]],
                             LAMBDA value : value.t = "str")
    IN  check_values(strings, 1)

\* _validate_input_data(data), data a dict
_validate_input_data(data) ==
    check_values([i \in 1..Len(data.v) |-> data.v[i][2]], 1)

(***************************************************************************)
(* The keyword arguments resolvers are called with.                        *)
(***************************************************************************)
S_hello == <<"h", "e", "l", "l", "o">>
S_script ==
    <<"<", "s", "c", "r", "i", "p", "t", ">", "a", "l", "e", "r", "t", "(", "1", ")",
      "<", "/", "s", "c", "r", "i", "p", "t", ">">>
S_drop == <<"x", ";", "D", "r", "o", "p", " ", "T", "a", "b", "l", "e", " ", "t">>
S_onload == <<"O", "N", "L", "O", "A", "D", "=", "j", "a", "v", "a", "s", "c", "r",
              "i", "p", "t", ":">>

NoKwargs == PDict(<<>>)

Kwargs ==
    {NoKwargs,
     PDict(<< <<"input", PDict(<< <<"title", PStr(S_hello)>> >>)>> >>),
     PDict(<< <<"input", PDict(<< <<"title", PStr(S_script)>> >>)>> >>),
     PDict(<< <<"id", PInt>>,
              <<"input", PDict(<< <<"title", PStr(S_hello)>>,
                                  <<"tags", PList(<<PStr(S_hello), PStr(S_drop)>>)>>
                               >>)>> >>),
     PDict(<< <<"name", PStr(S_onload)>> >>)}

(***************************************************************************)
(* Results, log records and resolvers.                                     *)
(***************************************************************************)
NoResult ==
    [status |-> "none", value |-> "", exception |-> "", message |-> <<>>,
     fields |-> {}]

\* a call that returned `value` (the Python value, written as Python writes it)
Returned(value) ==
    [status |-> "returned", value |-> value, exception |-> "", message |-> <<>>,
     fields |-> {}]

\* a call that returned an object with these fields
ReturnedObject(value, fields) ==
    [status |-> "returned", value |-> value, exception |-> "", message |-> <<>>,
     fields |-> fields]

\* a call that raised `exception`, whose str() is the pieces of `message`
Raised(exception, message) ==
    [status |-> "raised", value |-> "", exception |-> exception,
     message |-> message, fields |-> {}]

PyBool(b) == IF b THEN "True" ELSE "False"

\* What the wrapped resolver does when it is invoked: it returns, or raises
\* an Exception with or without a message, or raises a BaseException that
\* is no Exception.
ResolverOutcomes ==
    {Returned("resolver_result"),
     Raised("ValueError", <<"resolver failed">>),
     Raised("Exception", <<>>),
     Raised("KeyboardInterrupt", <<>>)}

\* the exceptions `except Exception` catches
IsException(exception) == exception \notin {"KeyboardInterrupt"}

\* user.username
username(user) == IF user.anonymous THEN "" ELSE ToString(user.pk)

\* str(user)
str_user(user) == IF user.anonymous THEN "AnonymousUser" ELSE ToString(user.pk)

\* logger.info(...) and logger.error(...)
LogRecord(level, text) == [level |-> level, text |-> text]

\* The handler the settings configure for every logger is one
\* logging.StreamHandler on stderr; its emit writes the record to the stream
\* and flushes it.  A call of the logger leaves the record in the stream or
\* not, and returns or raises.  It returns without the record when the write
\* fails with OSError, which emit reports on stderr and swallows.  It raises
\* what emit does not handle: ValueError from a closed stderr, which the
\* report of the failure meets too, RecursionError, which emit raises again,
\* with the message of the place where the depth ran out, and
\* KeyboardInterrupt; the exception can come before the write or after it,
\* during the flush.
LogWriteErrors ==
    {Raised("ValueError", <<"I/O operation on closed file.">>),
     Raised("RecursionError", <<"maximum recursion depth exceeded">>),
     Raised("RecursionError",
            <<"maximum recursion depth exceeded",
              " while calling a Python object">>),
     Raised("KeyboardInterrupt", <<>>)}

LoggerOutcomes == [written : BOOLEAN, error : {NoResult} \cup LogWriteErrors]

\* logger_write is the log after the call, logger_raises whether the call
\* raises to the code that logs.
logger_write(records, record, emitted) ==
    IF emitted.written THEN Append(records, record) ELSE records

logger_raises(emitted) == emitted.error # NoResult

\* what the logger call raises
LogWriteError(emitted) == emitted.error

\* the stage a call of the logger leaves in the trace
LogStage(emitted) ==
    IF emitted.written THEN "audit_logged" ELSE "audit_write_failed"

(***************************************************************************)
(* The call in progress.                                                   *)
(***************************************************************************)
\* the class of a call that is about no model class
NoClass ==
    ModelClass("", [required_roles |-> {}, audit_operations |-> {},
                    field_permissions |-> <<>>], FALSE)

NoCall ==
    [kind |-> "none", user |-> AnonymousUser, required_roles |-> {}, role |-> "",
     cls |-> NoClass, author |-> 0, field_name |-> "", operation |-> "",
     audit |-> FALSE, validate_input |-> FALSE, kwargs |-> NoKwargs,
     with_info |-> FALSE, required_fields |-> <<>>]

\* SECURITY_REGISTRY['blog_roles']: the permissions of each role
SECURITY_REGISTRY ==
    [ADMIN |-> {"create", "read", "update", "delete", "publish", "moderate"},
     EDITOR |-> {"create", "read", "update", "delete", "publish"},
     AUTHOR |-> {"create", "read", "update"},
     READER |-> {"read"},
     MODERATOR |-> {"read", "moderate"}]

\* the threads of the server, and a thread that runs nothing
MaxThreads == 2

Threads == 1..MaxThreads

NoThread == [pc |-> "idle", kind |-> "", outcome |-> NoResult, pk |-> 0]

\* the function returned, or raised what `except Exception` catches
OrdinaryCompletion(outcome) ==
    outcome.status = "returned" \/ IsException(outcome.exception)

\* the wrapped operation before the call
NoOp == [invoked |-> FALSE, kwargs |-> NoKwargs, outcome |-> NoResult]

\* the names of the classes secure_model is applied to
ClassNames == {"Category", "Post", "Subscriber", "Other"}

Init ==
    /\ pc = "idle"
    /\ call = NoCall
    /\ result = NoResult
    /\ log = <<>>
    /\ trace = <<>>
    /\ op = NoOp
    /\ graphql_security = [name \in ClassNames |-> {}]
    /\ security_registry = SECURITY_REGISTRY
    /\ threads = [t \in Threads |-> NoThread]
    /\ completions = <<>>
    /\ writers = <<>>
    /\ blog_settings = {}

\* instance.check_field_access(field_name, user, operation), the instance
\* one of class cls whose author has primary key `author` (0: none)
CheckFieldAccess ==
    /\ pc = "idle"
    /\ \E cls \in Models, author \in 0..MaxUsers, field_name \in FieldNames,
          user \in Users, operation \in Operations :
        /\ cls.has_author_field \/ author = 0
        /\ call' = [NoCall EXCEPT !.kind = "check_field_access", !.user = user,
                                  !.cls = cls, !.author = author,
                                  !.field_name = field_name,
                                  !.operation = operation]
        /\ result' = Returned(PyBool(
                        check_field_access(cls, author, field_name, user, operation)))
    /\ pc' = "done"
    /\ UNCHANGED <<log, trace, op, graphql_security, shared>>

\* instance.check_role_access(user, required_roles)
CheckRoleAccess ==
    /\ pc = "idle"
    /\ \E user \in Users, required_roles \in RoleLists(BlogRoleValues) :
        /\ call' = [NoCall EXCEPT !.kind = "check_role_access", !.user = user,
                                  !.required_roles = required_roles]
        /\ result' = Returned(PyBool(check_role_access(user, required_roles)))
    /\ pc' = "done"
    /\ UNCHANGED <<log, trace, op, graphql_security, shared>>

(***************************************************************************)
(* secure_resolver(required_roles, audit, validate_input): the wrapper,    *)
(* statement by statement.                                                 *)
(***************************************************************************)
SecureResolverCall ==
    /\ pc = "idle"
    /\ \E user \in Users, required_roles \in RoleLists(BlogRoleValues),
          audit \in BOOLEAN, validate_input \in BOOLEAN, kwargs \in Kwargs :
        call' = [NoCall EXCEPT !.kind = "secure_resolver", !.user = user,
                               !.required_roles = required_roles,
                               !.audit = audit,
                               !.validate_input = validate_input,
                               !.kwargs = kwargs]
    /\ pc' = "sr_authentication"
    /\ op' = [NoOp EXCEPT !.kwargs = call'.kwargs]
    /\ UNCHANGED <<result, log, trace, graphql_security, shared>>

\* a gate with no test of the AnonymousUser
sr_authentication_never_required(user, required_roles) == FALSE

\* if required_roles and isinstance(user, AnonymousUser)
sr_authentication_required(user, required_roles) ==
    required_roles # {} /\ user.anonymous

\* the role test that lets through every user holding some role
sr_insufficient_permissions_any_role(user, required_roles) ==
    /\ required_roles # {}
    /\ user_roles(user) = {}
    /\ ~user.is_staff

\* if required_roles: ... if not any(role in required_roles ...) and not is_staff
sr_insufficient_permissions(user, required_roles) ==
    /\ required_roles # {}
    /\ ~(\E role \in user_roles(user) : role \in required_roles)
    /\ ~user.is_staff

SR_CheckAuthentication ==
    /\ pc = "sr_authentication"
    /\ IF sr_authentication_required(call.user, call.required_roles)
       THEN /\ result' = Raised("PermissionDenied", <<"Authentication required">>)
            /\ pc' = "done"
            /\ UNCHANGED trace
       ELSE /\ pc' = "sr_roles"
            /\ trace' = Append(trace, "authenticated")
            /\ UNCHANGED result
    /\ UNCHANGED <<call, log, op, graphql_security, shared>>

SR_CheckRoles ==
    /\ pc = "sr_roles"
    /\ IF sr_insufficient_permissions(call.user, call.required_roles)
       THEN /\ result' = Raised("PermissionDenied", <<"Insufficient permissions">>)
            /\ pc' = "done"
            /\ UNCHANGED trace
       ELSE /\ pc' = "sr_audit"
            /\ trace' = Append(trace, "role_checked")
            /\ UNCHANGED result
    /\ UNCHANGED <<call, log, op, graphql_security, shared>>

\* if audit: logger.info(f"GraphQL operation: {name} by user: {username}")
SR_Audit ==
    /\ pc = "sr_audit"
    /\ IF call.audit
       THEN \E emitted \in LoggerOutcomes :
            /\ log' = logger_write(log, LogRecord("info",
                        <<"GraphQL operation: ", "resolver", " by user: ",
                          username(call.user)>>), emitted)
            /\ trace' = Append(trace, LogStage(emitted))
            /\ IF logger_raises(emitted)
               THEN result' = LogWriteError(emitted) /\ pc' = "done"
               ELSE pc' = "sr_validate" /\ UNCHANGED result
       ELSE pc' = "sr_validate" /\ UNCHANGED <<log, trace, result>>
    /\ UNCHANGED <<call, op, graphql_security, shared>>

\* if validate_input and kwargs: _validate_input_data(kwargs)
SR_Validate ==
    /\ pc = "sr_validate"
    /\ LET raised == IF call.validate_input /\ call.kwargs.v # <<>>
                     THEN _validate_input_data(call.kwargs)
                     ELSE ""
       IN  IF raised # ""
           THEN /\ result' = Raised("ValueError",
                        <<"Potentially dangerous input detected: ", raised>>)
                /\ pc' = "done"
                /\ UNCHANGED trace
           ELSE /\ pc' = "invoke"
                /\ trace' = Append(trace, "validated")
                /\ UNCHANGED result
    /\ UNCHANGED <<call, log, op, graphql_security, shared>>

(***************************************************************************)
(* require_authentication and require_role(role): the wrappers.            *)
(***************************************************************************)
RequireAuthenticationCall ==
    /\ pc = "idle"
    /\ \E user \in Users :
        /\ call' = [NoCall EXCEPT !.kind = "require_authentication", !.user = user]
        /\ IF user.anonymous
           THEN /\ result' = Raised("PermissionDenied", <<"Authentication required">>)
                /\ pc' = "done"
                /\ UNCHANGED trace
           ELSE /\ pc' = "invoke"
                /\ trace' = Append(trace, "authenticated")
                /\ UNCHANGED result
    /\ UNCHANGED <<log, op, graphql_security, shared>>

\* if role not in user_roles and not user.is_staff
rr_role_required(user, role) ==
    role \notin user_roles(user) /\ ~user.is_staff

RequireRoleCall ==
    /\ pc = "idle"
    /\ \E user \in Users, role \in BlogRoleValues :
        /\ call' = [NoCall EXCEPT !.kind = "require_role", !.user = user,
                                  !.role = role, !.required_roles = {role}]
        /\ IF user.anonymous
           THEN /\ result' = Raised("PermissionDenied", <<"Authentication required">>)
                /\ pc' = "done"
                /\ UNCHANGED trace
           ELSE IF rr_role_required(user, role)
           THEN /\ result' = Raised("PermissionDenied",
                                    <<"Role '", role, "' required">>)
                /\ pc' = "done"
                /\ UNCHANGED trace
           ELSE /\ pc' = "invoke"
                /\ trace' = <<"authenticated", "role_checked">>
                /\ UNCHANGED result
    /\ UNCHANGED <<log, op, graphql_security, shared>>

\* return resolver_func(self, info, **kwargs): the wrapper returns what the
\* resolver returns and raises what it raises
Invoke ==
    /\ pc = "invoke"
    /\ \E outcome \in ResolverOutcomes :
        /\ op' = [op EXCEPT !.invoked = TRUE, !.outcome = outcome]
        /\ result' = outcome
    /\ trace' = Append(trace, "invoked")
    /\ pc' = "done"
    /\ UNCHANGED <<call, log, graphql_security, shared>>

(***************************************************************************)
(* audit_operation(operation_name): the wrapper.                           *)
(***************************************************************************)
\* return result, and the bare raise of the except branch: what the caller
\* gets of what the function did
audit_operation_result(outcome) == outcome

\* the call, up to logger.info(f"AUDIT: {operation_name} performed by {user}")
\* which is outside the try: what it raises leaves the wrapper
AuditOperationCall ==
    /\ pc = "idle"
    /\ \E user \in Users, with_info \in BOOLEAN, emitted \in LoggerOutcomes :
        /\ with_info \/ user = AnonymousUser
        /\ call' = [NoCall EXCEPT !.kind = "audit_operation", !.user = user,
                                  !.with_info = with_info]
        /\ log' = logger_write(log, LogRecord("info",
                    <<"AUDIT: ", "operation_name", " performed by ",
                      IF with_info THEN str_user(user) ELSE "Test">>), emitted)
        /\ trace' = Append(trace, LogStage(emitted))
        /\ IF logger_raises(emitted)
           THEN result' = LogWriteError(emitted) /\ pc' = "done"
           ELSE pc' = "ao_invoke" /\ UNCHANGED result
    /\ UNCHANGED <<op, graphql_security, shared>>

\* try: result = func(*args, **kwargs).  What the function raises is, in
\* `result`, the exception in flight: the except branch handles it when it
\* is an Exception, and it leaves the wrapper when it is not
AO_Invoke ==
    /\ pc = "ao_invoke"
    /\ \E outcome \in ResolverOutcomes :
        /\ op' = [op EXCEPT !.invoked = TRUE, !.outcome = outcome]
        /\ IF outcome.status = "returned"
           THEN pc' = "ao_completed" /\ UNCHANGED result
           ELSE /\ result' = outcome
                /\ pc' = IF IsException(outcome.exception)
                         THEN "ao_failed" ELSE "done"
    /\ trace' = Append(trace, "invoked")
    /\ UNCHANGED <<call, log, graphql_security, shared>>

\* logger.info(f"AUDIT: {operation_name} completed successfully"); return
\* result.  The logger call is inside the try: an Exception it raises is
\* handled by the except branch
AO_LogCompleted ==
    /\ pc = "ao_completed"
    /\ \E emitted \in LoggerOutcomes :
        /\ log' = logger_write(log, LogRecord("info",
                    <<"AUDIT: ", "operation_name", " completed successfully">>),
                    emitted)
        /\ trace' = Append(trace, LogStage(emitted))
        /\ IF ~logger_raises(emitted)
           THEN result' = audit_operation_result(op.outcome) /\ pc' = "done"
           ELSE /\ result' = LogWriteError(emitted)
                /\ pc' = IF IsException(emitted.error.exception) THEN "ao_failed" ELSE "done"
    /\ UNCHANGED <<call, op, graphql_security, shared>>

\* except Exception as e: logger.error(f"AUDIT: ... failed: {str(e)}"); raise
\* The bare raise raises e again; what the logger call raises replaces it
AO_LogFailed ==
    /\ pc = "ao_failed"
    /\ \E emitted \in LoggerOutcomes :
        /\ log' = logger_write(log, LogRecord("error",
                    <<"AUDIT: ", "operation_name", " failed: ">>
                    \o result.message), emitted)
        /\ trace' = Append(trace, LogStage(emitted))
        /\ result' = IF logger_raises(emitted) THEN LogWriteError(emitted)
                     ELSE audit_operation_result(result)
    /\ pc' = "done"
    /\ UNCHANGED <<call, op, graphql_security, shared>>

(***************************************************************************)
(* encrypt_sensitive_field(field_name): the wrapper.                       *)
(***************************************************************************)
EncryptSensitiveFieldCall ==
    /\ pc = "idle"
    /\ \E user \in Users, field_name \in {"email", "preferences"} :
        call' = [NoCall EXCEPT !.kind = "encrypt_sensitive_field",
                               !.user = user, !.field_name = field_name]
    /\ pc' = "esf_invoke"
    /\ UNCHANGED <<result, log, trace, op, graphql_security, shared>>

\* result = func(self, info, *args, **kwargs): what it raises leaves the
\* wrapper
ESF_Invoke ==
    /\ pc = "esf_invoke"
    /\ \E outcome \in ResolverOutcomes :
        /\ op' = [op EXCEPT !.invoked = TRUE, !.outcome = outcome]
        /\ IF outcome.status = "returned"
           THEN pc' = "esf_log" /\ UNCHANGED result
           ELSE result' = outcome /\ pc' = "done"
    /\ trace' = Append(trace, "invoked")
    /\ UNCHANGED <<call, log, graphql_security, shared>>

\* logger.info(f"ENCRYPTION: Field '{field_name}' would be encrypted");
\* return result
ESF_Log ==
    /\ pc = "esf_log"
    /\ \E emitted \in LoggerOutcomes :
        /\ log' = logger_write(log, LogRecord("info",
                    <<"ENCRYPTION: Field '", call.field_name,
                      "' would be encrypted">>), emitted)
        /\ trace' = Append(trace, LogStage(emitted))
        /\ result' = IF logger_raises(emitted) THEN LogWriteError(emitted)
                     ELSE op.outcome
    /\ pc' = "done"
    /\ UNCHANGED <<call, op, graphql_security, shared>>

Next ==
    \/ CheckFieldAccess
    \/ CheckRoleAccess
    \/ SecureResolverCall
    \/ SR_CheckAuthentication
    \/ SR_CheckRoles
    \/ SR_Audit
    \/ SR_Validate
    \/ RequireAuthenticationCall
    \/ RequireRoleCall
    \/ Invoke
    \/ AuditOperationCall
    \/ AO_Invoke
    \/ AO_LogCompleted
    \/ AO_LogFailed
    \/ EncryptSensitiveFieldCall
    \/ ESF_Invoke
    \/ ESF_Log

Spec == Init /\ [][Next]_vars

(***************************************************************************)
(* _validate_input_data called on a payload, and validate_input.           *)
(***************************************************************************)
MaxDepth == 1
MaxItems == 2
MaxRequired == 2

\* None
PNone == [t |-> "none", v |-> <<>>]

\* the leaves of the payloads: strings, and a number
LeafValues ==
    {PStr(S_hello), PStr(S_script), PStr(S_drop), PStr(S_onload), PInt}

\* lists of two strings
PairLists ==
    {PList(<<PStr(a), PStr(b)>>) : a \in {S_hello, S_drop}, b \in {S_script, S_onload}}

\* the values of the payloads: leaves and lists of two strings, inside up to
\* `depth` lists and dicts
RECURSIVE NestedValues(_)
NestedValues(depth) ==
    IF depth = 0 THEN LeafValues \cup PairLists
    ELSE LET inner == NestedValues(depth - 1)
         IN  inner \cup {PList(<<value>>) : value \in inner}
                   \cup {PDict(<< <<"a", value>> >>) : value \in inner}

\* the keys of a payload, in the order of its items
TopKey(i) ==
    IF i = 1 THEN "input" ELSE IF i = 2 THEN "title" ELSE IF i = 3 THEN "tags"
    ELSE "name"

\* the payloads _validate_input_data is called on: those of the resolvers,
\* and dicts of up to MaxItems items, leaves but for one item that is any
\* of the values
ValidatePayloads ==
    Kwargs \cup {NoKwargs} \cup
    UNION {{PDict([i \in 1..n |->
                    <<TopKey(i), IF i = k THEN value ELSE leaves[i]>>]) :
                value \in NestedValues(MaxDepth), leaves \in [1..n -> LeafValues]} :
           n \in 1..MaxItems, k \in 1..MaxItems}

\* _validate_input_data(data): it returns None or raises ValueError
ValidateInputDataCall ==
    /\ pc = "idle"
    /\ \E data \in ValidatePayloads :
        LET raised == _validate_input_data(data)
        IN  /\ call' = [NoCall EXCEPT !.kind = "_validate_input_data",
                                      !.kwargs = data]
            /\ op' = [NoOp EXCEPT !.kwargs = data]
            /\ result' = IF raised # ""
                         THEN Raised("ValueError",
                                <<"Potentially dangerous input detected: ", raised>>)
                         ELSE Returned("None")
    /\ pc' = "done"
    /\ UNCHANGED <<log, trace, graphql_security, shared>>

\* '<script>', '</script>' and two strings that hold them
T_open == <<"<", "s", "c", "r", "i", "p", "t", ">">>
T_close == <<"<", "/", "s", "c", "r", "i", "p", "t", ">">>
S_nested == <<"<", "s", "c", "r", "<", "s", "c", "r", "i", "p", "t", ">", "i", "p",
              "t", ">", "y">>
S_upper == <<"<", "/", "s", "c", "r", "i", "p", "t", ">", "<", "S", "C", "R", "I",
             "P", "T", ">">>

\* str.replace(old, new), old not empty: every occurrence of old found from
\* the left, none overlapping another
RECURSIVE replace(_, _, _)
replace(chars, old, new) ==
    IF Len(chars) < Len(old) THEN chars
    ELSE IF SubSeq(chars, 1, Len(old)) = old
         THEN new \o replace(SubSeq(chars, Len(old) + 1, Len(chars)), old, new)
         ELSE <<chars[1]>> \o replace(Tail(chars), old, new)

\* field in input_data, and input_data[field]
has_key(dict, key) == \E i \in 1..Len(dict.v) : dict.v[i][1] = key
dict_value(dict, key) ==
    dict.v[CHOOSE i \in 1..Len(dict.v) : dict.v[i][1] = key][2]

\* not value: None, '', [] and {} are falsy; the numbers of the payloads are
\* not 0
falsy(value) ==
    \/ value.t = "none"
    \/ value.t \in {"str", "dict", "list"} /\ value.v = <<>>

\* input_data = kwargs.get('input', {}) if kwargs else {}
input_data(kwargs) ==
    IF kwargs.v # <<>> /\ has_key(kwargs, "input")
    THEN dict_value(kwargs, "input")
    ELSE PDict(<<>>)

\* the loop that stops at the first missing field
missing_fields_first_only(required_fields, input) ==
    LET all == SelectSeq(required_fields,
                    LAMBDA field : ~has_key(input, field)
                                   \/ falsy(dict_value(input, field)))
    IN  IF all = <<>> THEN <<>> ELSE <<all[1]>>

\* for field in required_fields:
\*     if field not in input_data or not input_data[field]: append
missing_fields(required_fields, input) ==
    SelectSeq(required_fields,
              LAMBDA field : ~has_key(input, field)
                             \/ falsy(dict_value(input, field)))

\* str(missing_fields): the pieces of "['a', 'b']"
RECURSIVE repr_items(_, _)
repr_items(names, i) ==
    IF i > Len(names) THEN <<>>
    ELSE (IF i > 1 THEN <<", ">> ELSE <<>>) \o <<"'", names[i], "'">>
         \o repr_items(names, i + 1)

repr_list(names) == <<"[">> \o repr_items(names, 1) \o <<"]">>

\* value.replace('<script>', '').replace('</script>', '')
sanitize(chars) == replace(replace(chars, T_open, <<>>), T_close, <<>>)

\* the sanitization that goes into the dicts of the input
RECURSIVE sanitize_deep(_)
sanitize_deep(value) ==
    IF value.t = "str" THEN PStr(sanitize(value.v))
    ELSE IF value.t = "dict"
         THEN PDict([i \in 1..Len(value.v) |->
                        <<value.v[i][1], sanitize_deep(value.v[i][2])>>])
    ELSE value

\* for field, value in input_data.items():
\*     if isinstance(value, str): input_data[field] = value.replace(...)
sanitize_input(input) ==
    PDict([i \in 1..Len(input.v) |->
            <<input.v[i][1],
              IF input.v[i][2].t = "str"
              THEN PStr(sanitize(input.v[i][2].v))
              ELSE input.v[i][2]>>])

\* the keyword arguments after the loop: the dict under 'input' is changed in
\* place, so the caller's object and what func receives are the same
kwargs_sanitized(kwargs) ==
    IF kwargs.v # <<>> /\ has_key(kwargs, "input")
    THEN PDict([i \in 1..Len(kwargs.v) |->
                    IF kwargs.v[i][1] = "input"
                    THEN <<"input", sanitize_input(kwargs.v[i][2])>>
                    ELSE kwargs.v[i]])
    ELSE kwargs

\* the wrapper that sanitizes before it looks for the required fields
validate_input_kwargs_sanitized_first(kwargs, missing) == kwargs_sanitized(kwargs)

\* the keyword arguments object when the wrapper raises or calls func: the
\* raise for the missing fields comes before the sanitization
validate_input_kwargs(kwargs, missing) ==
    IF missing # <<>> THEN kwargs ELSE kwargs_sanitized(kwargs)

\* the names validate_input is given, and the lists of them
RequiredNames == {"title", "content", "slug"}

RequiredFieldLists ==
    UNION {{fields \in [1..n -> RequiredNames] :
                \A i, j \in 1..n : fields[i] = fields[j] => i = j} :
           n \in 0..MaxRequired}

\* what the input gives a field: a value, or nothing
Absent == [t |-> "absent", v |-> <<>>]

InputFieldValues ==
    {Absent, PNone, PStr(<<>>), PStr(S_hello), PStr(S_script), PStr(S_nested),
     PStr(S_upper), PDict(<< <<"a", PStr(S_script)>> >>)}

\* the dicts passed as input: title and content, each with a value or absent
Inputs ==
    {PDict(SelectSeq(<< <<"title", title>>, <<"content", content>> >>,
                     LAMBDA item : item[2] # Absent)) :
        title \in InputFieldValues, content \in InputFieldValues}

\* the keyword arguments of the calls behind validate_input
ValidateInputKwargs ==
    {PDict(<< <<"input", input>> >>) : input \in Inputs}
    \cup {NoKwargs,
          PDict(<< <<"id", PInt>> >>),
          PDict(<< <<"id", PInt>>,
                   <<"input", PDict(<< <<"title", PStr(S_script)>> >>)>>,
                   <<"note", PStr(S_script)>> >>)}

\* validate_input(required_fields): the wrapper, up to the call of func
ValidateInputCall ==
    /\ pc = "idle"
    /\ \E required_fields \in RequiredFieldLists, kwargs \in ValidateInputKwargs :
        LET missing == missing_fields(required_fields, input_data(kwargs))
        IN  /\ call' = [NoCall EXCEPT !.kind = "validate_input",
                                      !.kwargs = kwargs,
                                      !.required_fields = required_fields]
            /\ IF missing # <<>>
               THEN /\ result' = Raised("ValueError",
                            <<"Missing required fields: ">> \o repr_list(missing))
                    /\ op' = [NoOp EXCEPT
                                !.kwargs = validate_input_kwargs(kwargs, missing)]
                    /\ pc' = "done"
                    /\ UNCHANGED trace
               ELSE /\ op' = [NoOp EXCEPT
                                !.kwargs = validate_input_kwargs(kwargs, missing)]
                    /\ pc' = "invoke"
                    /\ trace' = Append(trace, "validated")
                    /\ UNCHANGED result
    /\ UNCHANGED <<log, graphql_security, shared>>

NextValidate ==
    \/ ValidateInputDataCall
    \/ ValidateInputCall
    \/ Invoke

SpecValidate == Init /\ [][NextValidate]_vars

(***************************************************************************)
(* A read through secure_resolver: the resolver returns an instance of a   *)
(* model class, and the wrapper returns what the resolver returns.         *)
(***************************************************************************)
\* the fields the model classes declare
EntityFields(name) ==
    IF name = "Category"
    THEN {"name", "slug", "description", "is_active", "created_at", "updated_at"}
    ELSE IF name = "Tag"
    THEN {"name", "slug", "color", "is_active", "created_at"}
    ELSE IF name = "Post"
    THEN {"author", "title", "slug", "content", "excerpt", "category", "tags",
          "status", "featured_image", "is_featured", "view_count", "created_at",
          "updated_at", "published_at"}
    ELSE IF name = "Comment"
    THEN {"post", "author", "content", "parent", "is_approved", "is_flagged",
          "created_at", "updated_at"}
    ELSE IF name = "Subscriber"
    THEN {"email", "name", "is_active", "subscribed_at", "unsubscribed_at",
          "preferences"}
    ELSE IF name = "BlogSettings"
    THEN {"site_title", "site_description", "posts_per_page", "allow_comments",
          "moderate_comments", "maintenance_mode", "created_at", "updated_at"}
    ELSE {"flag", "title"}

\* the role lists the resolvers that read are wrapped with
ReadRoleLists == {{}, {"AUTHOR"}}

\* the wrapper called for a resolver that reads an instance of cls
ReadCall ==
    /\ pc = "idle"
    /\ \E cls \in Models, author \in 0..MaxUsers, user \in Users,
          required_roles \in ReadRoleLists, audit \in BOOLEAN :
        /\ cls.has_author_field \/ author = 0
        /\ call' = [NoCall EXCEPT !.kind = "secure_resolver", !.user = user,
                                  !.required_roles = required_roles,
                                  !.audit = audit,
                                  !.validate_input = TRUE,
                                  !.kwargs = PDict(<< <<"id", PInt>> >>),
                                  !.cls = cls, !.author = author,
                                  !.operation = "read"]
    /\ op' = [NoOp EXCEPT !.kwargs = call'.kwargs]
    /\ pc' = "sr_authentication"
    /\ UNCHANGED <<result, log, trace, graphql_security, shared>>

\* return resolver_func(self, info, **kwargs), the resolver returning the
\* instance with all its fields, or raising
InvokeRead ==
    /\ pc = "invoke"
    /\ \E outcome \in {ReturnedObject(call.cls.name, EntityFields(call.cls.name)),
                       Raised("Exception", <<"DoesNotExist">>)} :
        /\ op' = [op EXCEPT !.invoked = TRUE, !.outcome = outcome]
        /\ result' = outcome
    /\ trace' = Append(trace, "invoked")
    /\ pc' = "done"
    /\ UNCHANGED <<call, log, graphql_security, shared>>

NextRead ==
    \/ ReadCall
    \/ SR_CheckAuthentication
    \/ SR_CheckRoles
    \/ SR_Audit
    \/ SR_Validate
    \/ InvokeRead

SpecRead == Init /\ [][NextRead]_vars

(***************************************************************************)
(* secure_model(security_config) applied to a model class.                 *)
(***************************************************************************)
\* the configurations secure_model is handed
SecurityConfigs == {cls._graphql_security : cls \in Models}

\* decorator(model_class): model_class._graphql_security = security_config,
\* the two methods are added and the class is returned
SecureModel ==
    /\ pc = "idle"
    /\ \E name \in ClassNames, security_config \in SecurityConfigs :
        /\ call' = [NoCall EXCEPT !.kind = "secure_model",
                                  !.cls = ModelClass(name, security_config,
                                                     name = "Post")]
        /\ graphql_security' = [graphql_security EXCEPT ![name] = {security_config}]
        /\ result' = Returned(name)
    /\ UNCHANGED <<pc, log, trace, op, shared>>

NextRegistry == SecureModel

SpecRegistry == Init /\ [][NextRegistry]_vars

(***************************************************************************)
(* The calls on the classes as registered at startup: the configuration is *)
(* read from the class at each call, and one call follows another.         *)
(***************************************************************************)
\* the _graphql_security of the classes once the models are imported; the
\* configuration of Other has no 'field_permissions'
RegisteredSecurity ==
    [name \in ClassNames |->
        IF name = "Category" THEN {CategorySecurity}
        ELSE IF name = "Post" THEN {PostSecurity}
        ELSE IF name = "Subscriber" THEN {SubscriberSecurity}
        ELSE {[required_roles |-> {}, audit_operations |-> {}]}]

InitPolicy ==
    /\ pc = "idle"
    /\ call = NoCall
    /\ result = NoResult
    /\ log = <<>>
    /\ trace = <<>>
    /\ op = NoOp
    /\ graphql_security = RegisteredSecurity
    /\ security_registry = SECURITY_REGISTRY
    /\ threads = [t \in Threads |-> NoThread]
    /\ completions = <<>>
    /\ writers = <<>>
    /\ blog_settings = {}

\* dict.setdefault(key, default): the dict after the call
security_after_setdefault(security_config, key, default) ==
    [k \in DOMAIN security_config \cup {key} |->
        IF k \in DOMAIN security_config THEN security_config[k] ELSE default]

\* dict.get(key, default): the value, and the dict after the call
security_get(security_config, key, default) ==
    IF key \in DOMAIN security_config THEN security_config[key] ELSE default

security_after_get(security_config, key, default) == security_config

\* self.__class__._graphql_security of an instance of the class `name`
class_security(name) == CHOOSE security_config \in graphql_security[name] : TRUE

\* the class as check_field_access sees it
RegisteredClass(name) ==
    LET security_config == class_security(name)
    IN  ModelClass(name,
            [required_roles |-> security_config.required_roles,
             audit_operations |-> security_config.audit_operations,
             field_permissions |->
                security_get(security_config, "field_permissions", <<>>)],
            name = "Post")

\* instance.check_field_access(field_name, user, operation) on an instance of
\* a registered class
PolicyCheckFieldAccess ==
    /\ pc = "idle"
    /\ \E name \in ClassNames, author \in 0..MaxUsers, field_name \in FieldNames,
          user \in Users, operation \in Operations :
        /\ name = "Post" \/ author = 0
        /\ call' = [NoCall EXCEPT !.kind = "check_field_access", !.user = user,
                                  !.cls = RegisteredClass(name),
                                  !.author = author,
                                  !.field_name = field_name,
                                  !.operation = operation]
        /\ result' = Returned(PyBool(
                check_field_access(RegisteredClass(name), author, field_name,
                                   user, operation)))
        /\ graphql_security' =
                [graphql_security EXCEPT ![name] =
                    {security_after_get(class_security(name),
                                        "field_permissions", <<>>)}]
    /\ pc' = "done"
    /\ UNCHANGED <<log, trace, op, shared>>

\* instance.check_role_access(user, required_roles) with the required_roles
\* the class is configured with
PolicyCheckRoleAccess ==
    /\ pc = "idle"
    /\ \E name \in ClassNames, user \in Users :
        /\ call' = [NoCall EXCEPT !.kind = "check_role_access", !.user = user,
                                  !.cls = RegisteredClass(name),
                                  !.required_roles =
                                        class_security(name).required_roles]
        /\ result' = Returned(PyBool(
                check_role_access(user, class_security(name).required_roles)))
    /\ pc' = "done"
    /\ UNCHANGED <<log, trace, op, graphql_security, shared>>

\* a resolver wrapped by secure_resolver with the required_roles of a class
GuardedCall ==
    /\ pc = "idle"
    /\ \E name \in ClassNames, user \in Users, audit \in BOOLEAN,
          kwargs \in Kwargs :
        call' = [NoCall EXCEPT !.kind = "secure_resolver", !.user = user,
                               !.cls = RegisteredClass(name),
                               !.required_roles =
                                    class_security(name).required_roles,
                               !.audit = audit,
                               !.validate_input = TRUE,
                               !.kwargs = kwargs]
    /\ op' = [NoOp EXCEPT !.kwargs = call'.kwargs]
    /\ pc' = "sr_authentication"
    /\ UNCHANGED <<result, log, trace, graphql_security, shared>>

\* the caller has the result or the exception, and the next call starts;
\* the variables that follow one call are cleared
Return ==
    /\ pc = "done"
    /\ pc' = "idle"
    /\ call' = NoCall
    /\ result' = NoResult
    /\ log' = <<>>
    /\ trace' = <<>>
    /\ op' = NoOp
    /\ UNCHANGED <<graphql_security, shared>>

NextPolicy ==
    \/ PolicyCheckFieldAccess
    \/ PolicyCheckRoleAccess
    \/ GuardedCall
    \/ SR_CheckAuthentication
    \/ SR_CheckRoles
    \/ SR_Audit
    \/ SR_Validate
    \/ Invoke
    \/ ValidateInputDataCall
    \/ ValidateInputCall
    \/ AuditOperationCall
    \/ AO_Invoke
    \/ AO_LogCompleted
    \/ AO_LogFailed
    \/ EncryptSensitiveFieldCall
    \/ ESF_Invoke
    \/ ESF_Log
    \/ Return

SpecPolicy == InitPolicy /\ [][NextPolicy]_vars

(***************************************************************************)
(* audit_operation with the scheduling of one call: once the wrapper is    *)
(* called the function is called and ends.                                 *)
(***************************************************************************)
NextAudit ==
    \/ AuditOperationCall
    \/ AO_Invoke
    \/ AO_LogCompleted
    \/ AO_LogFailed

SpecAuditLive ==
    /\ Init /\ [][NextAudit]_vars
    /\ WF_vars(AO_Invoke) /\ WF_vars(AO_LogCompleted) /\ WF_vars(AO_LogFailed)

(***************************************************************************)
(* audit_operation called by several threads at once, for one user and one *)
(* operation name.  Each logger call is one step (the handler has a lock); *)
(* a thread can be preempted between the end of the function and the call  *)
(* of the logger.                                                          *)
(***************************************************************************)
\* the writers of the records after a call of the logger by thread t
writers_after(t, emitted) ==
    IF emitted.written THEN Append(writers, t) ELSE writers

\* logger.info(f"AUDIT: {operation_name} performed by {user}")
T_AuditCall(t) ==
    /\ threads[t].pc = "idle"
    /\ \E emitted \in LoggerOutcomes :
        /\ threads' = [threads EXCEPT
                ![t].kind = "audit_operation",
                ![t].pc = IF logger_raises(emitted) THEN "done" ELSE "ao_invoke",
                ![t].outcome = IF logger_raises(emitted)
                               THEN LogWriteError(emitted) ELSE NoResult]
        /\ log' = logger_write(log, LogRecord("info",
                    <<"AUDIT: ", "operation_name", " performed by ", "Test">>),
                    emitted)
        /\ writers' = writers_after(t, emitted)
    /\ UNCHANGED <<pc, call, result, trace, op, graphql_security,
                   security_registry, completions, blog_settings>>

\* result = func(*args, **kwargs): the function ends, by a return or a raise
T_AuditInvoke(t) ==
    /\ threads[t].pc = "ao_invoke"
    /\ \E outcome \in ResolverOutcomes :
        threads' = [threads EXCEPT
                        ![t].pc = IF outcome.status = "returned" THEN "ao_completed"
                                  ELSE IF IsException(outcome.exception)
                                  THEN "ao_failed" ELSE "done",
                        ![t].outcome = outcome]
    /\ completions' = Append(completions, t)
    /\ UNCHANGED <<pc, call, result, log, trace, op, graphql_security,
                   security_registry, writers, blog_settings>>

\* logger.info(... completed successfully); return result
T_AuditLogCompleted(t) ==
    /\ threads[t].pc = "ao_completed"
    /\ \E emitted \in LoggerOutcomes :
        /\ threads' = [threads EXCEPT
                ![t].pc = IF logger_raises(emitted) /\ IsException(emitted.error.exception)
                          THEN "ao_failed" ELSE "done",
                ![t].outcome = IF logger_raises(emitted)
                               THEN LogWriteError(emitted) ELSE @]
        /\ log' = logger_write(log, LogRecord("info",
                    <<"AUDIT: ", "operation_name", " completed successfully">>),
                    emitted)
        /\ writers' = writers_after(t, emitted)
    /\ UNCHANGED <<pc, call, result, trace, op, graphql_security,
                   security_registry, completions, blog_settings>>

\* except Exception as e: logger.error(... failed: {str(e)}); raise
T_AuditLogFailed(t) ==
    /\ threads[t].pc = "ao_failed"
    /\ \E emitted \in LoggerOutcomes :
        /\ threads' = [threads EXCEPT
                ![t].pc = "done",
                ![t].outcome = IF logger_raises(emitted)
                               THEN LogWriteError(emitted) ELSE @]
        /\ log' = logger_write(log, LogRecord("error",
                    <<"AUDIT: ", "operation_name", " failed: ">>
                    \o threads[t].outcome.message), emitted)
        /\ writers' = writers_after(t, emitted)
    /\ UNCHANGED <<pc, call, result, trace, op, graphql_security,
                   security_registry, completions, blog_settings>>

NextConcurrent ==
    \/ \E t \in Threads : T_AuditCall(t)
    \/ \E t \in Threads : T_AuditInvoke(t)
    \/ \E t \in Threads : T_AuditLogCompleted(t)
    \/ \E t \in Threads : T_AuditLogFailed(t)

SpecConcurrent == Init /\ [][NextConcurrent]_vars

(***************************************************************************)
(* BlogSettings.save() called by several threads at once.  The query       *)
(* BlogSettings.objects.exists() and the write of super().save() are two   *)
(* steps: no lock, transaction or constraint joins them.                   *)
(***************************************************************************)
\* the primary key the database gives a new row
next_pk == IF blog_settings = {} THEN 1
           ELSE (CHOOSE pk \in blog_settings : \A other \in blog_settings : other <= pk) + 1

\* instance.save(): if not self.pk and BlogSettings.objects.exists(): raise.
\* The instance is new (pk 0 for None) or has a primary key.
SaveCheck(t) ==
    /\ threads[t].pc = "idle"
    /\ \E pk \in 0..MaxThreads :
        threads' = [threads EXCEPT
            ![t].kind = "save",
            ![t].pk = pk,
            ![t].pc = IF pk = 0 /\ blog_settings # {} THEN "done" ELSE "save",
            ![t].outcome =
                IF pk = 0 /\ blog_settings # {}
                THEN Raised("ValueError",
                            <<"Only one BlogSettings instance is allowed">>)
                ELSE NoResult]
    /\ UNCHANGED <<pc, call, result, log, trace, op, graphql_security,
                   security_registry, completions, writers, blog_settings>>

\* super().save(): a new instance is inserted with the next primary key; an
\* instance with a primary key updates its row, or is inserted when no row
\* has that key
SaveStore(t) ==
    /\ threads[t].pc = "save"
    /\ LET pk == IF threads[t].pk = 0 THEN next_pk ELSE threads[t].pk
       IN  /\ blog_settings' = blog_settings \cup {pk}
           /\ threads' = [threads EXCEPT ![t].pc = "done", ![t].pk = pk,
                                         ![t].outcome = Returned("None")]
    /\ UNCHANGED <<pc, call, result, log, trace, op, graphql_security,
                   security_registry, completions, writers>>

\* the thread serves the next request
SaveReturn(t) ==
    /\ threads[t].pc = "done"
    /\ threads' = [threads EXCEPT ![t] = NoThread]
    /\ UNCHANGED <<pc, call, result, log, trace, op, graphql_security,
                   security_registry, completions, writers, blog_settings>>

NextSettings ==
    \/ \E t \in Threads : SaveCheck(t)
    \/ \E t \in Threads : SaveStore(t)
    \/ \E t \in Threads : SaveReturn(t)

SpecSettings == Init /\ [][NextSettings]_vars

(***************************************************************************)
(* Properties.                                                             *)
(***************************************************************************)
\* the call in progress has ended, and is a call of `kind`
Done(kind) == pc = "done" /\ call.kind = kind

\* the user is staff or superuser
IsAdmin(user) == user.is_staff \/ user.is_superuser

\* the user is the author of the instance the field check is about
IsOwner == call.author # 0 /\ ~call.user.anonymous /\ call.author = call.user.pk

\* the level the configuration of the checked class gives the checked field
\* (none when it gives none)
Configured(level) ==
    /\ call.field_name \in DOMAIN call.cls._graphql_security.field_permissions
    /\ call.cls._graphql_security.field_permissions[call.field_name] = level

Allowed == result = Returned("True")
Denied == result = Returned("False")

\* the position of the first `stage` in the trace, 0 when it is absent
StageAt(stage) ==
    IF \E i \in 1..Len(trace) : trace[i] = stage
    THEN CHOOSE i \in 1..Len(trace) :
            trace[i] = stage /\ \A j \in 1..(i - 1) : trace[j] # stage
    ELSE 0

Times(stage) == Cardinality({i \in 1..Len(trace) : trace[i] = stage})

\* the strings of a payload, at any depth
RECURSIVE Leaves(_)
Leaves(value) ==
    IF value.t = "str" THEN {value.v}
    ELSE IF value.t = "dict"
         THEN UNION {Leaves(value.v[i][2]) : i \in 1..Len(value.v)}
    ELSE IF value.t = "list"
         THEN UNION {Leaves(value.v[i]) : i \in 1..Len(value.v)}
    ELSE {}

\* some string of the payload holds a denylisted pattern, whatever the case
HasDangerousLeaf(value) ==
    \E leaf \in Leaves(value), i \in 1..Len(dangerous_patterns) :
        contains(lower(leaf), lower(dangerous_patterns[i].chars))

\* C1: check_role_access returns what these rules give, in this order: allow
\* when no role is required; else allow an admin; else deny an anonymous
\* user; else allow exactly when the user holds a required role.  With
\* EDITOR and ADMIN required, a non-admin holding only READER is denied and
\* an admin holding no role is allowed.
C1_RoleCheckRules ==
    Done("check_role_access") =>
        LET user == call.user
            required == call.required_roles
            rule == IF required = {} THEN TRUE
                    ELSE IF IsAdmin(user) THEN TRUE
                    ELSE IF user.anonymous THEN FALSE
                    ELSE user.roles \cap required # {}
        IN  /\ result = Returned(PyBool(rule))
            /\ (required = {"EDITOR", "ADMIN"} /\ ~IsAdmin(user)
                    /\ user.roles = {"READER"}) => Denied
            /\ (required = {"EDITOR", "ADMIN"} /\ IsAdmin(user)
                    /\ user.roles = {}) => Allowed

C1_Witness ==
    /\ Done("check_role_access")
    /\ call.required_roles = {"EDITOR", "ADMIN"}
    /\ ~call.user.anonymous /\ ~IsAdmin(call.user)
    /\ call.user.roles = {"READER"}
    /\ Denied

\* C2: a user who is staff or superuser passes every role gate, whatever
\* roles are required and whatever roles the user holds: check_role_access
\* returns True, and neither secure_resolver nor require_role raises
\* PermissionDenied.
C2_AdminPassesEveryGate ==
    (pc = "done" /\ IsAdmin(call.user)
        /\ call.kind \in {"check_role_access", "secure_resolver", "require_role"})
    => /\ result.exception # "PermissionDenied"
       /\ call.kind = "check_role_access" => Allowed

\* C3, as stated: in every call of a resolver wrapped by secure_resolver the
\* resolver is invoked at most once, and only after the role check passed
\* and then the sanitization of the input passed: no invoked input holds a
\* denylisted pattern; a call the role check or the sanitization ended does
\* not invoke it.
C3_InvokedOnlyAfterSanitization ==
    call.kind = "secure_resolver" =>
        /\ Times("invoked") <= 1
        /\ Times("invoked") = 1 =>
            /\ 0 < StageAt("role_checked")
            /\ StageAt("role_checked") < StageAt("validated")
            /\ StageAt("validated") < StageAt("invoked")
            /\ \/ call.required_roles = {}
               \/ /\ ~call.user.anonymous
                  /\ \/ call.user.roles \cap call.required_roles # {}
                     \/ call.user.is_staff
            /\ ~HasDangerousLeaf(call.kwargs)
        /\ (pc = "done" /\ (StageAt("role_checked") = 0 \/ StageAt("validated") = 0))
            => Times("invoked") = 0

\* C3, amended: in a call of a resolver wrapped by secure_resolver the
\* resolver is invoked at most once, and only after the role check passed
\* and then the statement of the input validation was passed; when the
\* wrapper was built with validate_input, no invoked input holds a
\* denylisted pattern, and a call the role check or the validation ended
\* does not invoke the resolver.  A wrapper built with validate_input=False
\* rejects no input: the resolver, when invoked, has the input as it came.
C3_InvokedOnceAfterChecks ==
    call.kind = "secure_resolver" =>
        /\ Times("invoked") <= 1
        /\ Times("invoked") = 1 =>
            /\ 0 < StageAt("role_checked")
            /\ StageAt("role_checked") < StageAt("validated")
            /\ StageAt("validated") < StageAt("invoked")
            /\ \/ call.required_roles = {}
               \/ /\ ~call.user.anonymous
                  /\ \/ call.user.roles \cap call.required_roles # {}
                     \/ call.user.is_staff
            /\ call.validate_input => ~HasDangerousLeaf(call.kwargs)
        /\ (pc = "done" /\ (StageAt("role_checked") = 0 \/ StageAt("validated") = 0))
            => Times("invoked") = 0
        /\ (pc = "done" /\ ~call.validate_input /\ result.message # <<>>) =>
                result.message[1] # "Potentially dangerous input detected: "
        /\ (pc = "done" /\ call.validate_input /\ HasDangerousLeaf(call.kwargs))
            => Times("invoked") = 0

C3_Witness ==
    /\ Done("secure_resolver")
    /\ call.required_roles = {"EDITOR", "ADMIN"}
    /\ call.user.roles = {"EDITOR"} /\ ~IsAdmin(call.user)
    /\ call.validate_input /\ call.kwargs # NoKwargs
    /\ trace = <<"authenticated", "role_checked", "validated", "invoked">>
    /\ result = Returned("resolver_result")

\* C4: a call of a resolver wrapped by secure_resolver that ends before the
\* resolver is invoked, by the role check or by the input validation, has
\* written no audit record.
C4_EarlyExitWritesNoAudit ==
    (Done("secure_resolver") /\ Times("invoked") = 0) => log = <<>>

\* C5: a call whose operation is audited (secure_resolver with audit, or
\* audit_operation) and was invoked has written exactly one audit record,
\* after the invocation, that tells the outcome: success when the operation
\* returned, failure with a non-empty message when it raised.
C5_ExactlyOneOutcomeRecord ==
    (pc = "done" /\ Times("invoked") = 1
        /\ \/ call.kind = "secure_resolver" /\ call.audit
           \/ call.kind = "audit_operation")
    => /\ Len(log) = 1
       /\ Times("audit_logged") = 1
       /\ StageAt("invoked") < StageAt("audit_logged")
       /\ result.status = "returned" => log[1].level = "info"
       /\ result.status = "raised" =>
            /\ log[1].level = "error"
            /\ result.message # <<>>
            /\ SubSeq(log[1].text, Len(log[1].text) - Len(result.message) + 1,
                      Len(log[1].text)) = result.message

\* C6: on a READ_ONLY field check_field_access denies a write and allows a
\* read for every user, admins and the author of the instance included.
C6_ReadOnlyDeniesWrite ==
    (Done("check_field_access") /\ Configured(READ_ONLY)) =>
        /\ call.operation = "write" => Denied
        /\ call.operation = "read" => Allowed

C6_Witness ==
    /\ Done("check_field_access") /\ Configured(READ_ONLY)
    /\ call.cls.name = "Post" /\ call.field_name = "view_count"
    /\ call.user.is_staff /\ call.user.is_superuser /\ IsOwner
    /\ call.operation = "write"
    /\ Denied

\* C7: on an OWNER_OR_ADMIN field check_field_access allows exactly the
\* author of the instance and the admins (staff or superuser), for read and
\* for write.
C7_OwnerOrAdminRule ==
    (Done("check_field_access") /\ Configured(OWNER_OR_ADMIN)) =>
        result = Returned(PyBool(IsOwner \/ IsAdmin(call.user)))

\* C8: a field the configuration gives no level is treated as PUBLIC, and a
\* PUBLIC field is allowed for every user, the anonymous one included, for
\* read and for write.
C8_UnlistedFieldIsPublic ==
    Done("check_field_access") =>
        /\ call.field_name \notin DOMAIN call.cls._graphql_security.field_permissions
            => Allowed
        /\ Configured(PUBLIC) => Allowed

C8_Witness ==
    /\ Done("check_field_access")
    /\ call.cls.name = "Post" /\ call.field_name = "title"
    /\ call.user.anonymous /\ call.operation = "write"
    /\ Allowed

\* C9: on an AUTHENTICATED field check_field_access allows exactly the users
\* who are not anonymous, and on an ADMIN_ONLY field exactly the admins
\* (staff or superuser), whatever the operation, the roles and the author.
C9_AuthenticatedAndAdminOnly ==
    Done("check_field_access") =>
        /\ Configured(AUTHENTICATED) => result = Returned(PyBool(~call.user.anonymous))
        /\ Configured(ADMIN_ONLY) => result = Returned(PyBool(IsAdmin(call.user)))

C9_Witness ==
    /\ Done("check_field_access") /\ Configured(ADMIN_ONLY)
    /\ call.cls.name = "Post" /\ call.field_name = "is_featured"
    /\ ~call.user.is_staff /\ call.user.is_superuser /\ ~IsOwner
    /\ call.user.roles = {}
    /\ call.operation = "write"
    /\ Allowed

\* C10: when the level configured for a field is none of the five members of
\* FieldAccessLevel, check_field_access denies every user, admins included,
\* for read and for write.
C10_UnknownLevelDenies ==
    (Done("check_field_access")
        /\ call.field_name \in DOMAIN call.cls._graphql_security.field_permissions
        /\ call.cls._graphql_security.field_permissions[call.field_name]
                \notin FieldAccessLevel)
    => Denied

C10_Witness ==
    /\ Done("check_field_access")
    /\ Configured("admin_only")
    /\ call.user.is_staff /\ call.user.is_superuser /\ IsOwner
    /\ call.operation = "read"
    /\ Denied

\* the class of the posts, as models.py declares it
PostClass == ModelClass("Post", PostSecurity, TRUE)

\* the call went through a role gate, and the gate denied it
GateDenied ==
    /\ pc = "done"
    /\ call.kind \in {"secure_resolver", "require_authentication", "require_role"}
    /\ result.exception = "PermissionDenied"

\* C11: field-level permission never widens what the role-level gate
\* denied.  In a call of a resolver behind secure_resolver or require_role,
\* when the role check denies the user (the gate raised, or check_role_access
\* denies the user the required roles) the operation is not invoked at all,
\* so it is performed on no field, whatever check_field_access would answer
\* for the user; and when the operation is invoked the role check came first.
C11_RoleDenialNotWidened ==
    (call.kind \in {"secure_resolver", "require_role"}) =>
        /\ (GateDenied \/ ~check_role_access(call.user, call.required_roles))
                => (~op.invoked /\ Times("invoked") = 0 /\ op.outcome = NoResult)
        /\ op.invoked =>
                (StageAt("role_checked") > 0
                    /\ StageAt("role_checked") < StageAt("invoked"))

C11_Witness ==
    /\ Done("secure_resolver")
    /\ result = Raised("PermissionDenied", <<"Insufficient permissions">>)
    /\ ~call.user.anonymous
    /\ call.user.roles = {"READER"}
    /\ check_field_access(PostClass, call.user.pk, "title", call.user, "write")
    /\ ~op.invoked

\* the message of the denial of a user who lacks the role
InsufficientRoleMessage ==
    IF call.kind = "require_role"
    THEN <<"Role '", call.role, "' required">>
    ELSE <<"Insufficient permissions">>

\* the call went through a gate that tests the user
Gated ==
    \/ call.kind \in {"require_authentication", "require_role"}
    \/ call.kind = "secure_resolver" /\ call.required_roles # {}

\* C17: a failed role check tells its two causes apart, in secure_resolver,
\* require_authentication and require_role alike.  An AnonymousUser at a gate
\* always gets PermissionDenied("Authentication required"); a denied user
\* who is authenticated holds none of the required roles and always gets the
\* insufficient-role message of the gate ("Insufficient permissions", or
\* "Role '<role>' required"); neither gets the message of the other.
C17_DenialTellsCauses ==
    (pc = "done" /\ Gated) =>
        /\ call.user.anonymous =>
                result = Raised("PermissionDenied", <<"Authentication required">>)
        /\ GateDenied =>
                /\ (result.message = <<"Authentication required">>)
                        <=> call.user.anonymous
                /\ ~call.user.anonymous =>
                        /\ result.message = InsufficientRoleMessage
                        /\ user_roles(call.user) \cap call.required_roles = {}
        /\ (/\ ~call.user.anonymous /\ ~call.user.is_staff
            /\ call.kind # "require_authentication"
            /\ user_roles(call.user) \cap call.required_roles = {})
                => result = Raised("PermissionDenied", InsufficientRoleMessage)

C17_Witness ==
    /\ Done("require_role")
    /\ ~call.user.anonymous
    /\ call.role = "EDITOR"
    /\ result = Raised("PermissionDenied", <<"Role '", "EDITOR", "' required">>)

\* the record audit_operation writes of what the function did
OutcomeRecord(outcome) ==
    IF outcome.status = "returned"
    THEN LogRecord("info", <<"AUDIT: ", "operation_name", " completed successfully">>)
    ELSE LogRecord("error", <<"AUDIT: ", "operation_name", " failed: ">>
                            \o outcome.message)

\* the function returned, or raised an Exception
OrdinaryOutcome(outcome) ==
    outcome.status = "returned" \/ IsException(outcome.exception)

\* C18: audit_operation is transparent to what the function does.  When the
\* function returns a value the caller gets that value, and when it raises
\* an Exception the caller gets that exception with its message, unchanged;
\* the logger is called with the record of the outcome after the function
\* ended and before the caller gets control, and unless that write failed
\* the record is the last one of the log.
C18_AuditIsTransparent ==
    (Done("audit_operation") /\ op.invoked /\ OrdinaryOutcome(op.outcome)) =>
        /\ result = op.outcome
        /\ Len(trace) >= 2
        /\ trace[Len(trace) - 1] = "invoked"
        /\ trace[Len(trace)] \in {"audit_logged", "audit_write_failed"}
        /\ trace[Len(trace)] = "audit_logged" =>
                (log # <<>> /\ log[Len(log)] = OutcomeRecord(op.outcome))

\* what _validate_input_data raises on the keyword arguments of the call,
\* "" when the wrapper does not call it or it accepts them
ValidationRaises ==
    IF call.validate_input /\ call.kwargs.v # <<>>
    THEN _validate_input_data(call.kwargs)
    ELSE ""

\* C19: a failure of the write of an audit record never reaches the caller
\* and never changes what the call does: an audit_operation call invokes the
\* function and gives its caller what the function returned or raised, never
\* what the logger raised, and a secure_resolver call whose audit write
\* failed still validates the input and, unless the validation rejects it,
\* invokes the resolver and gives what it did.
C19_AuditWriteFailureSwallowed ==
    /\ Done("audit_operation") => (op.invoked /\ result = op.outcome)
    /\ (Done("secure_resolver") /\ Times("audit_write_failed") > 0) =>
            IF ValidationRaises # ""
            THEN result = Raised("ValueError",
                    <<"Potentially dangerous input detected: ", ValidationRaises>>)
            ELSE op.invoked /\ result = op.outcome

\* the strings of a payload in the order check_value meets them
RECURSIVE LeafSeq(_)
RECURSIVE LeafSeqOf(_, _)
LeafSeq(value) ==
    IF value.t = "str" THEN <<value.v>>
    ELSE IF value.t = "dict"
         THEN LeafSeqOf([i \in 1..Len(value.v) |-> value.v[i][2]], 1)
    ELSE IF value.t = "list" THEN LeafSeqOf(value.v, 1)
    ELSE <<>>

LeafSeqOf(items, i) ==
    IF i > Len(items) THEN <<>>
    ELSE LeafSeq(items[i]) \o LeafSeqOf(items, i + 1)

\* the string holds the i-th pattern of the denylist, whatever the case
Holds(leaf, i) == contains(lower(leaf), lower(dangerous_patterns[i].chars))

\* C13: _validate_input_data raises ValueError exactly when some string of
\* the payload, at any depth of dicts and lists, holds one of the six
\* patterns of the denylist compared without regard to case; on a payload
\* with no such string it returns None.
C13_RaisesIffDangerousLeaf ==
    Done("_validate_input_data") =>
        /\ (result.status = "raised" /\ result.exception = "ValueError")
                <=> HasDangerousLeaf(call.kwargs)
        /\ ~HasDangerousLeaf(call.kwargs) => result = Returned("None")
        /\ Len(dangerous_patterns) = 6

C13_Witness ==
    /\ Done("_validate_input_data")
    /\ call.kwargs = PDict(<< <<"input", PDict(<< <<"a", PStr(S_drop)>> >>)>> >>)
    /\ result = Raised("ValueError",
                       <<"Potentially dangerous input detected: ", "DROP TABLE">>)

\* C14: the pattern check stops at the first match.  On a payload with
\* several offending strings or several patterns found, the one ValueError
\* names one pattern: the first of the denylist, in its order, that the first
\* offending string in the order of the traversal holds.
C14_FirstPatternOfFirstLeaf ==
    (Done("_validate_input_data") /\ HasDangerousLeaf(call.kwargs)) =>
        LET leaves == LeafSeq(call.kwargs)
            Offending(j) == \E i \in 1..Len(dangerous_patterns) : Holds(leaves[j], i)
            first == CHOOSE j \in 1..Len(leaves) :
                        Offending(j) /\ \A k \in 1..(j - 1) : ~Offending(k)
            pattern == CHOOSE i \in 1..Len(dangerous_patterns) :
                        /\ Holds(leaves[first], i)
                        /\ \A k \in 1..(i - 1) : ~Holds(leaves[first], k)
        IN  result = Raised("ValueError",
                        <<"Potentially dangerous input detected: ",
                          dangerous_patterns[pattern].name>>)

C14_Witness ==
    /\ Done("_validate_input_data")
    /\ call.kwargs = PDict(<< <<"input", PList(<<PStr(S_hello), PStr(S_onload)>>)>>,
                              <<"title", PStr(S_script)>> >>)
    /\ result.message = <<"Potentially dangerous input detected: ", "javascript:">>

\* C15 as claimed: after a validation step (_validate_input_data, or the
\* wrapper of validate_input), whether it accepted or raised, the payload is
\* what the caller supplied and the wrapped operation receives that.
C15_ValidationNeverMutates ==
    (pc # "idle" /\ call.kind \in {"_validate_input_data", "validate_input"})
        => op.kwargs = call.kwargs

\* C15 amended: _validate_input_data never changes the payload, and
\* validate_input does not change it when it raises; when the required
\* fields are all there validate_input replaces each string that is a
\* top-level field of `input` by that string with every '<script>' and then
\* every '</script>' removed, and leaves every other field, the nested ones
\* included, as supplied: that is what the wrapped operation receives.
C15_OnlySanitizationChangesInput ==
    (pc # "idle" /\ call.kind \in {"_validate_input_data", "validate_input"}) =>
        IF \/ call.kind = "_validate_input_data"
           \/ result.status = "raised" /\ ~op.invoked
        THEN op.kwargs = call.kwargs
        ELSE /\ Len(op.kwargs.v) = Len(call.kwargs.v)
             /\ \A i \in 1..Len(call.kwargs.v) :
                    LET before == call.kwargs.v[i]
                        after == op.kwargs.v[i]
                    IN  /\ after[1] = before[1]
                        /\ before[1] # "input" => after = before
                        /\ before[1] = "input" =>
                            /\ after[2].t = "dict"
                            /\ Len(after[2].v) = Len(before[2].v)
                            /\ \A j \in 1..Len(before[2].v) :
                                LET old == before[2].v[j]
                                    new == after[2].v[j]
                                IN  /\ new[1] = old[1]
                                    /\ new[2] =
                                        IF old[2].t = "str"
                                        THEN PStr(replace(replace(old[2].v,
                                                    T_open, <<>>), T_close, <<>>))
                                        ELSE old[2]

C15_Witness ==
    /\ Done("validate_input")
    /\ op.invoked
    /\ call.kwargs = PDict(<< <<"input",
            PDict(<< <<"title", PStr(S_script)>>,
                     <<"content", PDict(<< <<"a", PStr(S_script)>> >>)>> >>)>> >>)
    /\ op.kwargs = PDict(<< <<"input",
            PDict(<< <<"title", PStr(<<"a", "l", "e", "r", "t", "(", "1", ")">>)>>,
                     <<"content", PDict(<< <<"a", PStr(S_script)>> >>)>> >>)>> >>)

\* C16: validate_input raises exactly when some required field is absent
\* from the input or has a falsy value, and the ValueError then lists every
\* such field, in the order they are required; when every required field is
\* there with a truthy value the wrapped operation is invoked.
C16_RequiredFieldsAllListed ==
    (pc # "idle" /\ call.kind = "validate_input") =>
        LET input == input_data(call.kwargs)
            Missing(field) ==
                \/ \A i \in 1..Len(input.v) : input.v[i][1] # field
                \/ dict_value(input, field)
                        \in {PNone, PStr(<<>>), PList(<<>>), PDict(<<>>)}
            missing == SelectSeq(call.required_fields, Missing)
        IN  IF \E i \in 1..Len(call.required_fields) :
                    Missing(call.required_fields[i])
            THEN /\ pc = "done"
                 /\ ~op.invoked
                 /\ result = Raised("ValueError",
                        <<"Missing required fields: ">> \o repr_list(missing))
            ELSE \/ pc = "invoke"
                 \/ pc = "done" /\ op.invoked /\ Times("invoked") = 1
                        /\ result = op.outcome

C16_Witness ==
    /\ Done("validate_input")
    /\ call.required_fields = <<"title", "content">>
    /\ input_data(call.kwargs) =
            PDict(<< <<"title", PStr(<<>>)>>, <<"content", PNone>> >>)
    /\ result = Raised("ValueError",
            <<"Missing required fields: ", "[", "'", "title", "'", ", ",
              "'", "content", "'", "]">>)

\* C12: on a successful read through the guard, the result the caller gets
\* holds exactly the fields of the instance that check_field_access allows
\* the user to read; a denied field is absent from it.  With Post.status
\* OWNER_OR_ADMIN, a non-admin author gets status of a post of their own and
\* does not get it of a post of another author.
C12_ReadReturnsAllowedFields ==
    (Done("secure_resolver") /\ call.operation = "read"
        /\ result.status = "returned") =>
        result.fields =
            {field_name \in EntityFields(call.cls.name) :
                check_field_access(call.cls, call.author, field_name,
                                   call.user, "read")}

\* C20: applying secure_model to a class that already has a configuration
\* fails with an error and leaves the first configuration in force, so a
\* class that has a configuration keeps the one it got first.
C20_DuplicateRegistrationFails ==
    [][\A name \in ClassNames :
        (call'.kind = "secure_model" /\ call'.cls.name = name
            /\ graphql_security[name] # {})
        => (result'.status = "raised"
            /\ graphql_security'[name] = graphql_security[name])]_vars

\* C21: after the registration at startup the policy data is read-only.
\* Whatever role checks, field checks, input validations, audit writes and
\* guarded calls follow one another, each class has the configuration it
\* was registered with and SECURITY_REGISTRY the permission sets it was
\* written with.
C21_PolicyIsReadOnly ==
    /\ graphql_security = RegisteredSecurity
    /\ security_registry = SECURITY_REGISTRY

C21_Witness ==
    /\ Done("check_field_access")
    /\ call.cls.name = "Other"
    /\ call.field_name = "flag"
    /\ Allowed
    /\ "field_permissions" \notin DOMAIN class_security("Other")
    /\ C21_PolicyIsReadOnly

\* the member of BlogRoles whose value is the role name
BlogRoleMember(value) ==
    CHOOSE member \in BlogRoles :
        member = IF value = "ADMIN" THEN "BlogRoles.ADMIN"
                 ELSE IF value = "EDITOR" THEN "BlogRoles.EDITOR"
                 ELSE IF value = "AUTHOR" THEN "BlogRoles.AUTHOR"
                 ELSE IF value = "READER" THEN "BlogRoles.READER"
                 ELSE "BlogRoles.MODERATOR"

\* C25: with the configurations as the models declare them (required_roles
\* listing members of BlogRoles) and the roles of the users as the tests
\* assign them (the values of the members), check_role_access called with
\* the required_roles of the class allows an authenticated user who is not
\* admin and holds a role the class lists.
C25_DeclaredRolesAllowHolder ==
    (Done("check_role_access") /\ call.cls # NoClass
        /\ ~call.user.anonymous /\ ~IsAdmin(call.user)
        /\ \E value \in call.user.roles :
                BlogRoleMember(value) \in call.cls._graphql_security.required_roles)
    => Allowed

\* C24: the reason of a denial does not tell the rule behind it.  An
\* authenticated user denied by secure_resolver or by require_role gets a
\* reason that does not name the role that was required, so two
\* configurations that differ in the required role give the same reason.
C24_DenialReasonHidesRole ==
    (GateDenied /\ ~call.user.anonymous
        /\ call.kind \in {"secure_resolver", "require_role"}) =>
        \A i \in 1..Len(result.message) :
            /\ result.message[i] \notin call.required_roles
            /\ result.message[i] # call.role

\* C28: when validate_input finds a required field absent or falsy it raises
\* before it sanitizes anything: the keyword arguments are as supplied, the
\* strings with script tags included, and the wrapped operation is not
\* invoked.
C28_RejectedInputUntouched ==
    (pc # "idle" /\ call.kind = "validate_input"
        /\ \E i \in 1..Len(call.required_fields) :
            LET input == input_data(call.kwargs)
                field == call.required_fields[i]
            IN  \/ \A j \in 1..Len(input.v) : input.v[j][1] # field
                \/ dict_value(input, field) \in {PNone, PStr(<<>>)})
    => /\ pc = "done"
       /\ result.status = "raised" /\ result.exception = "ValueError"
       /\ op.kwargs = call.kwargs
       /\ ~op.invoked /\ trace = <<>>

C28_Witness ==
    /\ Done("validate_input")
    /\ call.required_fields = <<"title">>
    /\ call.kwargs = PDict(<< <<"input",
            PDict(<< <<"title", PStr(<<>>)>>, <<"content", PStr(S_script)>> >>)>> >>)
    /\ op.kwargs = call.kwargs
    /\ result.status = "raised"
    /\ ~op.invoked

\* C29: the sanitization of validate_input is complete and idempotent.  In
\* the input the wrapped operation receives no top-level string holds
\* '<script>' or '</script>', sanitizing it again changes nothing, and the
\* pattern check would not find '<script' in it.
C29_SanitizationComplete ==
    (pc \in {"invoke", "done"} /\ call.kind = "validate_input"
        /\ trace # <<>>) =>
        LET input == input_data(op.kwargs)
        IN  \A i \in 1..Len(input.v) :
                LET value == input.v[i][2]
                IN  value.t = "str" =>
                        /\ ~contains(value.v, T_open)
                        /\ ~contains(value.v, T_close)
                        /\ sanitize(value.v) = value.v
                        /\ first_pattern(lower(value.v), 1) # "<script"

\* a class whose field `flag` has the level
FlagClass(level, has_author_field) ==
    ModelClass("Other",
               [required_roles |-> {}, audit_operations |-> {},
                field_permissions |-> [flag |-> level]], has_author_field)

\* C30: the levels are ordered by strictness.  For every user, instance and
\* operation, a user check_field_access allows on an ADMIN_ONLY field it
\* allows on an OWNER_OR_ADMIN field, one it allows on an OWNER_OR_ADMIN
\* field it allows on an AUTHENTICATED field, and one it allows on an
\* AUTHENTICATED field it allows on a PUBLIC field.
C30_LevelsOrderedByStrictness ==
    Done("check_field_access") =>
        LET allowed(level) ==
                check_field_access(FlagClass(level, call.cls.has_author_field),
                                   call.author, "flag", call.user, call.operation)
        IN  /\ allowed(ADMIN_ONLY) => allowed(OWNER_OR_ADMIN)
            /\ allowed(OWNER_OR_ADMIN) => allowed(AUTHENTICATED)
            /\ allowed(AUTHENTICATED) => allowed(PUBLIC)

\* C22: when several audited operations run at once, the records of their
\* outcomes are in the log in the order in which the operations ended, and
\* each record tells which operation it is about: two records of different
\* calls differ.
C22_RecordsInCompletionOrder ==
    LET outcomes == {i \in 1..Len(log) : log[i].text[3] # " performed by "}
        Position(t) == CHOOSE i \in 1..Len(completions) : completions[i] = t
    IN  /\ \A i, j \in outcomes :
                i < j => Position(writers[i]) < Position(writers[j])
        /\ \A i, j \in 1..Len(log) :
                (log[i] = log[j] /\ log[i].text[3] # " performed by ")
                    => writers[i] = writers[j]

\* C23: every invoked audited operation gets a record of its outcome,
\* whatever way it ends: once the function is called, the call ends with the
\* logger called for the outcome, a failure or a cancellation included.
C23_EveryOutcomeRecorded ==
    (pc = "ao_invoke") ~>
        (/\ pc = "done"
         /\ op.invoked
         /\ trace # <<>>
         /\ trace[Len(trace)] \in {"audit_logged", "audit_write_failed"})

\* C27: at most one BlogSettings row is ever stored, whatever saves run and
\* however they interleave, and a save of a new instance that ended with the
\* error stored nothing.
C27_AtMostOneBlogSettings ==
    Cardinality(blog_settings) <= 1

=============================================================================
